---- MODULE Spec2Model ----
(***************************************************************************)
(* Phone/OTP authentication core of the elder-connect backend:             *)
(* routes/auth.js (send-otp, verify-otp, refresh, verify),                 *)
(* middleware/auth.js (bearer gate), models/Otp.js and models/User.js.     *)
(*                                                                         *)
(* Every request handler is an async function: the code between two        *)
(* awaits runs without interruption, and every awaited store call takes    *)
(* effect as one step of its own.  A handler's position is its pc; the     *)
(* documents it holds in local variables are copies of what it read.       *)
(***************************************************************************)
EXTENDS Integers, Sequences, FiniteSets, TLC

\* ---------------------------------------------------------------- bounds
MaxTime == 3
MaxOtpIds == 4
MaxUserIds == 2
MaxBurst == 4
MaxStored == 6

\* ------------------------------------------------------ program constants
\* One clock unit stands for the OTP lifetime; the token lifetimes keep
\* their order (OTP < access < refresh).
OtpTtl == 1
MaxAttempts == 5
AccessLife == 2
RefreshLife == 3

\* ---------------------------------------------------------------- inputs
Handlers == {"h1", "h2"}
ValidPhone == <<"+", "9", "4">>
PhoneInputs == {ValidPhone, <<"9", "4">>, <<>>}
Codes == {"111111", "222222"}
OtpInputs == Codes \cup {""}

\* express-validator notEmpty() on a body field: body("phoneNumber")
\* (a sequence of characters) and body("otp"), body("refreshToken")
phoneNotEmpty(p) == Len(p) > 0
notEmpty(s) == s # ""

startsWithAny(p) == Len(p) > 0

\* String.prototype.startsWith('+')
startsWithPlus(p) == Len(p) > 0 /\ p[1] = "+"

\* ---------------------------------------------------------------- tokens
JWT_SECRET == "dev_secret"
SharedSecret == "dev_secret"
JWT_REFRESH_SECRET == "dev_refresh"
NoTok == [sub |-> 0, type |-> "", iat |-> 0, exp |-> 0, key |-> ""]
Garbage == [sub |-> 0, type |-> "", iat |-> 0, exp |-> 0, key |-> "garbage"]

\* jwt.sign({sub}, JWT_SECRET, {expiresIn: "7d"}) at clock t: the token is
\* a deterministic function of payload, iat, exp and signing secret.
signAccessToken(id, t) ==
    [sub |-> id, type |-> "", iat |-> t, exp |-> t + AccessLife, key |-> JWT_SECRET]

signRefreshTokenAsAccess(id, t) ==
    [sub |-> id, type |-> "", iat |-> t, exp |-> t + RefreshLife, key |-> JWT_SECRET]

\* jwt.sign({sub, type: "refresh"}, JWT_REFRESH_SECRET, {expiresIn: "30d"})
signRefreshToken(id, t) ==
    [sub |-> id, type |-> "refresh", iat |-> t, exp |-> t + RefreshLife,
     key |-> JWT_REFRESH_SECRET]

\* jwt.verify(token, secret) at clock t: malformed or wrongly signed tokens
\* throw JsonWebTokenError, then an elapsed exp throws TokenExpiredError.
jwtVerify(tok, secret, t) ==
    IF tok.key # secret THEN "JsonWebTokenError"
    ELSE IF t >= tok.exp THEN "TokenExpiredError"
    ELSE "ok"

\* -------------------------------------------------------------- documents
NoOtp == [id |-> 0, phoneNumber |-> <<>>, code |-> "", expiresAt |-> 0,
          attempts |-> 0, evals |-> 0]
NoUser == [id |-> 0, phoneNumber |-> <<>>, isVerified |-> FALSE,
           isActive |-> FALSE, refreshToken |-> NoTok]

NoResp == [kind |-> "None", attemptsRemaining |-> 0, accessToken |-> NoTok,
           refreshToken |-> NoTok, user |-> NoUser]
Resp(k) == [NoResp EXCEPT !.kind = k]

NoObs == [pre |-> NoOtp, used |-> FALSE, last |-> "none", run |-> -1,
          lastCode |-> "", lastExpiry |-> 0, sendOk |-> FALSE, prevCode |-> "",
          redeemed |-> NoTok, replaced |-> NoTok, deactAt |-> -1]

Idle == [pc |-> "idle", phone |-> <<>>, otp |-> "", rec |-> NoOtp,
         user |-> NoUser, code |-> "", expiresAt |-> 0, tok |-> NoTok,
         newTok |-> NoTok, route |-> "", body |-> FALSE, sms |-> <<>>,
         resp |-> NoResp]

VARIABLES now, otps, users, uids, h, burst, obs

vars == <<now, otps, users, uids, h, burst, obs>>

\* ------------------------------------------------------------ store reads
MinId(S) == CHOOSE d \in S : \A e \in S : d.id <= e.id

\* Otp.findOne({phoneNumber}): the first matching document in insertion order
OtpFindOne(p) ==
    LET m == {d \in otps : d.phoneNumber = p} IN
    IF m = {} THEN NoOtp ELSE MinId(m)

\* User.findOne({phoneNumber})
UserFindOne(p) ==
    LET m == {u \in users : u.phoneNumber = p} IN
    IF m = {} THEN NoUser ELSE MinId(m)

\* User.findById(id)
UserFindById(i) ==
    LET m == {u \in users : u.id = i} IN
    IF m = {} THEN NoUser ELSE MinId(m)

\* A new ObjectId: one that no stored document and no handler's copy carries.
FreshOtpId ==
    LET used == {d.id : d \in otps} \cup {h[x].rec.id : x \in Handlers}
        free == (1..MaxOtpIds) \ used
    IN CHOOSE i \in free : \A j \in free : i <= j

\* uids counts the user ids handed out so far
FreshUserId == uids + 1

\* ----------------------------------------------------------- store writes
DuplicateKeyNever(p) == FALSE

\* the unique index on User.phoneNumber: an insert for a phone that a
\* stored document already carries is rejected (E11000)
DuplicateKey(p) == UserFindOne(p) # NoUser

\* Otp.deleteOne({_id})
OtpDeleteNone(i) == otps

OtpDeleteOne(i) == {d \in otps : d.id # i}

\* document.save() of an Otp whose attempts path was modified:
\* updateOne({_id}, {$set: {attempts}})
OtpSaveAttempts(i, a) ==
    {IF d.id = i THEN [d EXCEPT !.attempts = a] ELSE d : d \in otps}

OtpUpdateFirstKeepCode(p, c, e) ==
    LET f == OtpFindOne(p) IN
    {IF d.id = f.id
       THEN [d EXCEPT !.expiresAt = e, !.attempts = 0, !.evals = 0]
       ELSE d : d \in otps}

OtpUpdateFirstKeepAttempts(p, c, e) ==
    LET f == OtpFindOne(p) IN
    {IF d.id = f.id
       THEN [d EXCEPT !.code = c, !.expiresAt = e]
       ELSE d : d \in otps}

\* the update half of Otp.findOneAndUpdate({phoneNumber}, {code, expiresAt,
\* attempts: 0}): the first matching document is changed in place and keeps
\* its _id
OtpUpdateFirst(p, c, e) ==
    LET f == OtpFindOne(p) IN
    {IF d.id = f.id
       THEN [d EXCEPT !.code = c, !.expiresAt = e, !.attempts = 0, !.evals = 0]
       ELSE d : d \in otps}

UserSetRefreshTokenUnverify(i, t) ==
    {IF u.id = i THEN [u EXCEPT !.refreshToken = t, !.isVerified = FALSE]
       ELSE u : u \in users}

\* User.findByIdAndUpdate(id, {refreshToken})
UserSetRefreshToken(i, t) ==
    {IF u.id = i THEN [u EXCEPT !.refreshToken = t] ELSE u : u \in users}

UserKeepUnverified(i) == users

\* user.save() after user.isVerified = true
UserSetVerified(i) ==
    {IF u.id = i THEN [u EXCEPT !.isVerified = TRUE] ELSE u : u \in users}

\* User.findByIdAndUpdate(id, {isActive})
UserSetActive(i, b) ==
    {IF u.id = i THEN [u EXCEPT !.isActive = b] ELSE u : u \in users}

\* ------------------------------------------------------------- scheduling
\* A new request takes the first free handler slot.
CanStart(x) ==
    /\ h[x].pc = "idle"
    /\ x = "h2" => h["h1"].pc # "idle"

Set(x, r) == h' = [h EXCEPT ![x] = r]
\* the response r is sent; the request's inputs stay in scope
Done(x, r) == Set(x, [Idle EXCEPT !.pc = "done", !.phone = h[x].phone,
                                  !.otp = h[x].otp, !.tok = h[x].tok,
                                  !.code = h[x].code, !.expiresAt = h[x].expiresAt,
                                  !.route = h[x].route, !.body = h[x].body,
                                  !.sms = h[x].sms, !.resp = r])

Init ==
    /\ now = 0
    /\ otps = {}
    /\ users = {}
    /\ uids = 0
    /\ burst = 0
    /\ obs = NoObs
    /\ h = [x \in Handlers |-> Idle]

\* The fields of a document read by Otp.findOne that the handler goes on to
\* use: _id and attempts.
Held(r) == [NoOtp EXCEPT !.id = r.id, !.attempts = r.attempts]

\* ------------------------------------------------- POST /api/auth/send-otp
\* validation up to the first await (User.findOne)
SendOtp(x) ==
    /\ CanStart(x)
    /\ \E p \in PhoneInputs :
         IF ~phoneNotEmpty(p)
           THEN Set(x, [Idle EXCEPT !.pc = "done", !.route = "send-otp", !.phone = p,
                                    !.resp = Resp("ValidationError")])
         ELSE IF ~startsWithPlus(p)
           THEN Set(x, [Idle EXCEPT !.pc = "done", !.route = "send-otp", !.phone = p,
                                    !.resp = Resp("FormatError")])
         ELSE Set(x, [Idle EXCEPT !.pc = "send_findUser", !.route = "send-otp",
                                  !.phone = p])
    /\ UNCHANGED <<now, otps, users, uids>>

\* code = Math.random..., expiresAt = Date.now() + OTP_TTL_MS, then the
\* upsert is awaited
SendGenerate(x, c) ==
    Set(x, [h[x] EXCEPT !.pc = "send_upsert", !.code = c, !.expiresAt = now + OtpTtl])

SendFindUser(x) ==
    /\ h[x].pc = "send_findUser"
    /\ IF UserFindOne(h[x].phone) = NoUser
         THEN Set(x, [h[x] EXCEPT !.pc = "send_createUser"])
         ELSE \E c \in Codes : SendGenerate(x, c)
    /\ UNCHANGED <<now, otps, users, uids>>

\* User.create({phoneNumber, firstName}); the unique index on phoneNumber
\* rejects a second document (the rejection is not caught by the handler)
SendCreateUser(x) ==
    /\ h[x].pc = "send_createUser"
    /\ IF DuplicateKey(h[x].phone)
         THEN /\ Done(x, Resp("Unhandled"))
              /\ UNCHANGED <<users, uids>>
         ELSE /\ users' = users \cup
                   {[id |-> FreshUserId, phoneNumber |-> h[x].phone,
                     isVerified |-> FALSE, isActive |-> TRUE, refreshToken |-> NoTok]}
              /\ uids' = uids + 1
              /\ \E c \in Codes : SendGenerate(x, c)
    /\ UNCHANGED <<now, otps>>

\* Otp.findOneAndUpdate({phoneNumber}, {code, expiresAt, attempts: 0},
\* {upsert: true}): a match is updated in place; with no match the command
\* goes on to insert (the collection has no unique index on phoneNumber, so
\* the insert is not rejected when another document has appeared meanwhile)
SendUpsert(x) ==
    /\ h[x].pc = "send_upsert"
    /\ IF OtpFindOne(h[x].phone) # NoOtp
         THEN /\ otps' = OtpUpdateFirst(h[x].phone, h[x].code, h[x].expiresAt)
              /\ Set(x, [h[x] EXCEPT !.pc = "send_sms"])
         ELSE /\ Set(x, [h[x] EXCEPT !.pc = "send_insert"])
              /\ UNCHANGED otps
    /\ UNCHANGED <<now, users, uids>>

SendInsert(x) ==
    /\ h[x].pc = "send_insert"
    /\ otps' = otps \cup {[id |-> FreshOtpId, phoneNumber |-> h[x].phone,
                           code |-> h[x].code, expiresAt |-> h[x].expiresAt,
                           attempts |-> 0, evals |-> 0]}
    /\ Set(x, [h[x] EXCEPT !.pc = "send_sms"])
    /\ UNCHANGED <<now, users, uids>>

SmsOutcomeSwallowed(ok) == "OtpSent"

\* try { await sendSms(...); 200 } catch (smsError) { 500 }
SmsOutcome(ok) == IF ok THEN "OtpSent" ELSE "GatewayFailure"

\* await sendSms(...): one axios.post to the provider, which resolves (2xx)
\* or throws (4xx, 5xx, timeout, unreachable), and the response that
\* follows; sms lists the outcomes of the posts made for the request
SendSms(x) ==
    /\ h[x].pc = "send_sms"
    /\ \E ok \in BOOLEAN :
         Set(x, [h[x] EXCEPT !.pc = "done", !.sms = Append(h[x].sms, ok),
                             !.resp = Resp(SmsOutcome(ok))])
    /\ UNCHANGED <<now, otps, users, uids>>


\* ----------------------------------------------- POST /api/auth/verify-otp
\* otpRecord.expiresAt < new Date()
IsExpiredInverted(r, t) == r.expiresAt > t

IsExpiredAtBoundary(r, t) == r.expiresAt <= t

IsExpired(r, t) == r.expiresAt < t

\* otpRecord.attempts >= maxAttempts, after the increment
AttemptsExhaustedLate(a) == a > MaxAttempts

AttemptsExhaustedEarly(a) == a >= MaxAttempts - 1

AttemptsExhausted(a) == a >= MaxAttempts

\* validation up to the first await (Otp.findOne)
VerifyOtp(x) ==
    /\ CanStart(x)
    /\ \E p \in PhoneInputs, c \in OtpInputs :
         IF ~phoneNotEmpty(p) \/ ~notEmpty(c)
           THEN Set(x, [Idle EXCEPT !.pc = "done", !.route = "verify-otp", !.phone = p,
                                    !.otp = c, !.resp = Resp("ValidationError")])
           ELSE Set(x, [Idle EXCEPT !.pc = "ver_findOtp", !.route = "verify-otp",
                                    !.phone = p, !.otp = c])
    /\ UNCHANGED <<now, otps, users, uids>>

\* the record read by Otp.findOne and the branch taken on it: not found,
\* expired (expiresAt < new Date()), mismatch (attempts += 1 on the copy,
\* save awaited) or match (deleteOne awaited).  evals counts, on the stored
\* document, the wrong codes compared against the code it now holds.
VerFindOtp(x) ==
    /\ h[x].pc = "ver_findOtp"
    /\ LET r == OtpFindOne(h[x].phone) IN
         IF r = NoOtp
           THEN Done(x, Resp("NotFound")) /\ UNCHANGED otps
         ELSE IF IsExpired(r, now)
           THEN Set(x, [h[x] EXCEPT !.pc = "ver_delExpired", !.rec = Held(r)])
                /\ UNCHANGED otps
         ELSE IF r.code # h[x].otp
           THEN /\ Set(x, [h[x] EXCEPT !.pc = "ver_save",
                                       !.rec = [Held(r) EXCEPT !.attempts = r.attempts + 1]])
                /\ otps' = {IF d.id = r.id
                               THEN [d EXCEPT !.evals = IF d.evals > MaxAttempts
                                                          THEN d.evals ELSE d.evals + 1]
                               ELSE d : d \in otps}
         ELSE Set(x, [h[x] EXCEPT !.pc = "ver_delete", !.rec = Held(r)])
              /\ UNCHANGED otps
    /\ UNCHANGED <<now, users, uids>>

VerDeleteExpired(x) ==
    /\ h[x].pc = "ver_delExpired"
    /\ otps' = OtpDeleteOne(h[x].rec.id)
    /\ Done(x, Resp("Expired"))
    /\ UNCHANGED <<now, users, uids>>

\* await otpRecord.save(): rejects (uncaught) when the document is gone;
\* then the attempt-limit decision on the handler's copy
VerSave(x) ==
    /\ h[x].pc = "ver_save"
    /\ IF \A d \in otps : d.id # h[x].rec.id
         THEN Done(x, Resp("Unhandled")) /\ UNCHANGED otps
         ELSE /\ otps' = OtpSaveAttempts(h[x].rec.id, h[x].rec.attempts)
              /\ IF AttemptsExhausted(h[x].rec.attempts)
                   THEN Set(x, [h[x] EXCEPT !.pc = "ver_delMax"])
                   ELSE Done(x, [Resp("InvalidCode") EXCEPT !.attemptsRemaining =
                                   MaxAttempts - h[x].rec.attempts])
    /\ UNCHANGED <<now, users, uids>>

VerDeleteMax(x) ==
    /\ h[x].pc = "ver_delMax"
    /\ otps' = OtpDeleteOne(h[x].rec.id)
    /\ Done(x, Resp("TooManyAttempts"))
    /\ UNCHANGED <<now, users, uids>>

\* OTP is valid - delete it; User.findOne is awaited next
VerDelete(x) ==
    /\ h[x].pc = "ver_delete"
    /\ otps' = OtpDeleteOne(h[x].rec.id)
    /\ Set(x, [h[x] EXCEPT !.pc = "ver_findUser", !.rec = NoOtp])
    /\ UNCHANGED <<now, users, uids>>

\* refreshToken = signRefreshToken(user._id); findByIdAndUpdate is awaited
VerSign(x, u) ==
    Set(x, [h[x] EXCEPT !.pc = "ver_storeToken", !.user = u,
                        !.newTok = signRefreshToken(u.id, now)])

VerFindUser(x) ==
    /\ h[x].pc = "ver_findUser"
    /\ LET u == UserFindOne(h[x].phone) IN
         IF u = NoUser THEN Set(x, [h[x] EXCEPT !.pc = "ver_createUser"])
         ELSE IF ~u.isVerified
           THEN Set(x, [h[x] EXCEPT !.pc = "ver_saveUser",
                                    !.user = [u EXCEPT !.isVerified = TRUE]])
         ELSE VerSign(x, u)
    /\ UNCHANGED <<now, otps, users, uids>>

\* User.create({phoneNumber, isVerified: true, firstName})
VerCreateUser(x) ==
    /\ h[x].pc = "ver_createUser"
    /\ IF DuplicateKey(h[x].phone)
         THEN Done(x, Resp("Unhandled")) /\ UNCHANGED <<users, uids>>
         ELSE LET u == [id |-> FreshUserId, phoneNumber |-> h[x].phone,
                        isVerified |-> TRUE, isActive |-> TRUE,
                        refreshToken |-> NoTok] IN
              /\ users' = users \cup {u}
              /\ uids' = uids + 1
              /\ VerSign(x, u)
    /\ UNCHANGED <<now, otps>>

\* await user.save() after user.isVerified = true
VerSaveUser(x) ==
    /\ h[x].pc = "ver_saveUser"
    /\ IF UserFindById(h[x].user.id) = NoUser
         THEN Done(x, Resp("Unhandled")) /\ UNCHANGED users
         ELSE /\ users' = UserSetVerified(h[x].user.id)
              /\ VerSign(x, h[x].user)
    /\ UNCHANGED <<now, otps, uids>>

ProjectionWhole(u) == u

\* the sanitized projection of the user document held by the handler
\* (the response objects list their fields one by one; refreshToken is not
\* among them)
Projection(u) == [u EXCEPT !.refreshToken = NoTok]

\* await User.findByIdAndUpdate(user._id, {refreshToken}); then
\* accessToken = signAccessToken(user._id) and the 200 response
VerStoreToken(x) ==
    /\ h[x].pc = "ver_storeToken"
    /\ users' = UserSetRefreshToken(h[x].user.id, h[x].newTok)
    /\ Done(x, [Resp("Success") EXCEPT
                  !.accessToken = signAccessToken(h[x].user.id, now),
                  !.refreshToken = h[x].newTok,
                  !.user = Projection(h[x].user)])
    /\ UNCHANGED <<now, otps, uids>>

\* -------------------------------------------------- POST /api/auth/refresh
\* Tokens a client can hold: what the two signing functions produce for an
\* identity created so far at some past instant, an unverifiable string, or none.
TokenInputs ==
    {signAccessToken(i, t) : i \in 1..uids, t \in 0..now}
      \cup {signRefreshToken(i, t) : i \in 1..uids, t \in 0..now}
      \cup {Garbage, NoTok}

\* jwt.verify with the refresh secret and the payload.type check, both
\* before the first await
RefreshCheck(tok, t) ==
    IF jwtVerify(tok, JWT_REFRESH_SECRET, t) = "TokenExpiredError" THEN "TokenExpired"
    ELSE IF jwtVerify(tok, JWT_REFRESH_SECRET, t) = "JsonWebTokenError" THEN "Malformed"
    ELSE IF tok.type # "refresh" THEN "WrongTokenKind"
    ELSE "ok"

Refresh(x) ==
    /\ CanStart(x)
    /\ \E tok \in TokenInputs :
         IF tok = NoTok
           THEN Set(x, [Idle EXCEPT !.pc = "done", !.route = "refresh", !.tok = tok,
                                    !.resp = Resp("ValidationError")])
         ELSE IF RefreshCheck(tok, now) # "ok"
           THEN Set(x, [Idle EXCEPT !.pc = "done", !.route = "refresh", !.tok = tok,
                                    !.resp = Resp(RefreshCheck(tok, now))])
         ELSE Set(x, [Idle EXCEPT !.pc = "ref_findUser", !.route = "refresh",
                                  !.tok = tok])
    /\ UNCHANGED <<now, otps, users, uids>>

RefreshUserCheckNoActive(u, tok) ==
    IF u = NoUser THEN "UnknownUser"
    ELSE IF u.refreshToken # tok THEN "StaleToken"
    ELSE "ok"

RefreshUserCheckActiveFirst(u, tok) ==
    IF u = NoUser THEN "UnknownUser"
    ELSE IF ~u.isActive THEN "AccountInactive"
    ELSE IF u.refreshToken # tok THEN "StaleToken"
    ELSE "ok"

\* the checks on the document read by User.findById, in the code's order
RefreshUserCheck(u, tok) ==
    IF u = NoUser THEN "UnknownUser"
    ELSE IF u.refreshToken # tok THEN "StaleToken"
    ELSE IF ~u.isActive THEN "AccountInactive"
    ELSE "ok"

\* user = await User.findById(payload.sub); the checks; newRefreshToken =
\* signRefreshToken(user._id); findByIdAndUpdate is awaited
RefFindUser(x) ==
    /\ h[x].pc = "ref_findUser"
    /\ LET u == UserFindById(h[x].tok.sub) IN
         IF RefreshUserCheck(u, h[x].tok) # "ok"
           THEN Done(x, Resp(RefreshUserCheck(u, h[x].tok)))
           ELSE Set(x, [h[x] EXCEPT !.pc = "ref_store", !.user = u,
                                    !.newTok = signRefreshToken(u.id, now)])
    /\ UNCHANGED <<now, otps, users, uids>>

\* await User.findByIdAndUpdate(user._id, {refreshToken: newRefreshToken});
\* newAccessToken = signAccessToken(user._id); the 200 response
RefStore(x) ==
    /\ h[x].pc = "ref_store"
    /\ users' = UserSetRefreshToken(h[x].user.id, h[x].newTok)
    /\ Done(x, [Resp("Success") EXCEPT
                  !.accessToken = signAccessToken(h[x].user.id, now),
                  !.refreshToken = h[x].newTok,
                  !.user = Projection(h[x].user)])
    /\ UNCHANGED <<now, otps, uids>>

\* ------------------------------------------------- middleware/auth.js gate
AuthCheckExpiredAsMalformed(tok, t) ==
    IF tok = NoTok THEN "NoToken"
    ELSE IF jwtVerify(tok, JWT_SECRET, t) # "ok" THEN "Malformed"
    ELSE IF tok.type = "refresh" THEN "WrongTokenKind"
    ELSE "ok"

\* jwt.verify with the access secret and the payload.type check, both
\* before the first await
AuthCheck(tok, t) ==
    IF tok = NoTok THEN "NoToken"
    ELSE IF jwtVerify(tok, JWT_SECRET, t) = "TokenExpiredError" THEN "TokenExpired"
    ELSE IF jwtVerify(tok, JWT_SECRET, t) = "JsonWebTokenError" THEN "Malformed"
    ELSE IF tok.type = "refresh" THEN "WrongTokenKind"
    ELSE "ok"

\* the checks on the document read by User.findById, in the code's order
AuthUserCheckNoActive(u) ==
    IF u = NoUser THEN "UnknownUser" ELSE "ok"

AuthUserCheckStoredToken(u) ==
    IF u = NoUser THEN "UnknownUser"
    ELSE IF ~u.isActive THEN "AccountInactive"
    ELSE IF u.refreshToken.iat > 0 THEN "StaleToken"
    ELSE "ok"

AuthUserCheck(u) ==
    IF u = NoUser THEN "UnknownUser"
    ELSE IF ~u.isActive THEN "AccountInactive"
    ELSE "ok"

\* The routes behind the gate that the core's state depends on:
\* GET /api/auth/verify ("session"), PUT /api/users/:id for one's own id
\* with body {isActive} ("putUser") and DELETE /api/users/:id for one's own
\* id ("deleteUser").  The gate does not look at the route, so the route of
\* a request is drawn when the gate lets it through.
Authenticate(x) ==
    /\ CanStart(x)
    /\ \E tok \in TokenInputs :
         IF AuthCheck(tok, now) # "ok"
           THEN Set(x, [Idle EXCEPT !.pc = "done", !.route = "auth", !.tok = tok,
                                    !.resp = Resp(AuthCheck(tok, now))])
           ELSE Set(x, [Idle EXCEPT !.pc = "auth_findUser", !.route = "auth",
                                    !.tok = tok])
    /\ UNCHANGED <<now, otps, users, uids>>

\* user = await User.findById(payload.sub); the checks; req.user = user;
\* next(): GET /verify answers at once, PUT /:id and DELETE /:id await
\* their store call
AuthFindUser(x) ==
    /\ h[x].pc = "auth_findUser"
    /\ LET u == UserFindById(h[x].tok.sub) IN
         IF AuthUserCheck(u) # "ok"
           THEN Done(x, Resp(AuthUserCheck(u)))
           ELSE \/ Done(x, [Resp("SessionValid") EXCEPT !.user = Projection(u)])
                \/ \E b \in BOOLEAN :
                     Set(x, [h[x] EXCEPT !.pc = "put_update", !.user = u,
                                         !.route = "putUser", !.body = b])
                \/ /\ uids < MaxUserIds
                   /\ Set(x, [h[x] EXCEPT !.pc = "del_user", !.user = u,
                                          !.route = "deleteUser"])
    /\ UNCHANGED <<now, otps, users, uids>>

\* PUT /api/users/:id: await User.findByIdAndUpdate(targetUserId, updates)
PutUpdate(x) ==
    /\ h[x].pc = "put_update"
    /\ users' = UserSetActive(h[x].user.id, h[x].body)
    /\ Done(x, Resp("UserUpdated"))
    /\ UNCHANGED <<now, otps, uids>>

\* DELETE /api/users/:id: await User.findByIdAndDelete(targetUserId)
DeleteUser(x) ==
    /\ h[x].pc = "del_user"
    /\ users' = {u \in users : u.id # h[x].user.id}
    /\ Done(x, Resp("UserDeleted"))
    /\ UNCHANGED <<now, otps, uids>>

\* ---------------------------------------------------- POST /api/otp/verify
\* The second verification endpoint (routes/otp.js) works on the same Otp
\* and User collections.  apiKeyAuth and validation up to the first await
\* (Otp.findOne); key says whether the x-api-key and x-user-id headers pass.
OtpVerify(x) ==
    /\ CanStart(x)
    /\ \E key \in BOOLEAN, p \in PhoneInputs, c \in OtpInputs :
         IF ~key
           THEN Set(x, [Idle EXCEPT !.pc = "done", !.route = "otp-verify", !.phone = p,
                                    !.otp = c, !.resp = Resp("InvalidApiKey")])
         ELSE IF ~phoneNotEmpty(p) \/ ~notEmpty(c)
           THEN Set(x, [Idle EXCEPT !.pc = "done", !.route = "otp-verify", !.phone = p,
                                    !.otp = c, !.resp = Resp("ValidationError")])
           ELSE Set(x, [Idle EXCEPT !.pc = "over_findOtp", !.route = "otp-verify",
                                    !.phone = p, !.otp = c])
    /\ UNCHANGED <<now, otps, users, uids>>

\* the record read by Otp.findOne and the branch taken on it: not found,
\* expired (answered at once, the record is left in place), mismatch
\* (attempts += 1 on the copy, save awaited) or match (deleteOne awaited,
\* and from there the same statements as in POST /api/auth/verify-otp).
\* The stored counter is followed up to MaxStored.
OtpVerFindOtp(x) ==
    /\ h[x].pc = "over_findOtp"
    /\ LET r == OtpFindOne(h[x].phone) IN
         IF r = NoOtp
           THEN Done(x, Resp("NotFound")) /\ UNCHANGED otps
         ELSE IF IsExpired(r, now)
           THEN Done(x, Resp("Expired")) /\ UNCHANGED otps
         ELSE IF r.code # h[x].otp
           THEN /\ r.attempts < MaxStored
                /\ Set(x, [h[x] EXCEPT !.pc = "over_save",
                                       !.rec = [Held(r) EXCEPT !.attempts = r.attempts + 1]])
                /\ otps' = {IF d.id = r.id
                               THEN [d EXCEPT !.evals = IF d.evals > MaxAttempts
                                                          THEN d.evals ELSE d.evals + 1]
                               ELSE d : d \in otps}
         ELSE Set(x, [h[x] EXCEPT !.pc = "ver_delete", !.rec = Held(r)])
              /\ UNCHANGED otps
    /\ UNCHANGED <<now, users, uids>>

\* await record.save(), then 400 'Invalid OTP': no attempt limit is applied
OtpVerSave(x) ==
    /\ h[x].pc = "over_save"
    /\ IF \A d \in otps : d.id # h[x].rec.id
         THEN Done(x, Resp("Unhandled")) /\ UNCHANGED otps
         ELSE /\ otps' = OtpSaveAttempts(h[x].rec.id, h[x].rec.attempts)
              /\ Done(x, Resp("InvalidCode"))
    /\ UNCHANGED <<now, users, uids>>

\* ------------------------------------------------------------ environment
Tick ==
    /\ now < MaxTime
    /\ now' = now + 1
    /\ UNCHANGED <<otps, users, uids, h>>

\* the response has been delivered; the slot is free again
Finish(x) ==
    /\ h[x].pc = "done"
    /\ Set(x, Idle)
    /\ UNCHANGED <<now, otps, users, uids>>

\* the TTL index on expiresAt (expireAfterSeconds: 0): the store's monitor
\* removes documents whose expiresAt has passed
TtlMonitor ==
    /\ \E d \in otps : d.expiresAt < now
    /\ otps' = {d \in otps : ~(d.expiresAt < now)}
    /\ UNCHANGED <<now, users, uids, h>>

\* ---------------------------------------------------------------- history
\* What a client driving the service one request at a time has seen so far
\* (obs is written by no handler and read by none):
\*   pre        the stored record for the phone when the verification arrived
\*   used       a verification has succeeded since the last passcode request
\*   last       outcome of the request just answered, if a verification
\*   run        wrong codes submitted before expiry, one after the other,
\*              against the record of the last request (-1: not in such a run)
\*   lastCode, lastExpiry, sendOk   during a run: what the request issued,
\*              and whether the gateway accepted it
\*   prevCode   the code of the request before it, when the two requests
\*              followed each other with no verification in between
\*   redeemed   the refresh token redeemed by the request just answered
\*   replaced   the refresh token that was stored for the identity until the
\*              successful verification just answered stored a new one
\*   deactAt    when the identity that is now inactive was deactivated
WrongAttempt(a) ==
    /\ obs.pre # NoOtp
    /\ obs.pre.expiresAt >= now
    /\ a.otp # obs.pre.code

Forget == [obs EXCEPT !.pre = NoOtp, !.last = "none", !.redeemed = NoTok,
                      !.replaced = NoTok]

Remember(a) ==
    IF a.route = "send-otp" /\ a.resp.kind \in {"OtpSent", "GatewayFailure"}
      THEN [Forget EXCEPT !.used = FALSE, !.run = 0,
                          !.prevCode = IF obs.run = 0 THEN obs.lastCode ELSE "",
                          !.lastCode = a.code, !.lastExpiry = a.expiresAt,
                          !.sendOk = (a.resp.kind = "OtpSent")]
    ELSE IF a.route = "verify-otp" /\ a.resp.kind # "ValidationError"
      THEN IF WrongAttempt(a) /\ obs.run >= 0 /\ obs.run + 1 < MaxAttempts
             THEN [Forget EXCEPT !.last = a.resp.kind, !.run = obs.run + 1,
                                 !.prevCode = ""]
             ELSE [Forget EXCEPT !.last = a.resp.kind, !.run = -1,
                                 !.replaced = obs.replaced,
                                 !.used = obs.used \/ a.resp.kind = "Success",
                                 !.prevCode = "", !.lastCode = "",
                                 !.lastExpiry = 0, !.sendOk = FALSE]
    ELSE IF a.route = "refresh" /\ a.resp.kind = "Success"
      THEN [Forget EXCEPT !.redeemed = a.tok]
    ELSE IF a.route = "putUser" /\ a.resp.kind = "UserUpdated" /\ ~a.body
      THEN [Forget EXCEPT !.deactAt = now]
    ELSE Forget

Observed ==
    LET a == h["h1"]
        b == h'["h1"] IN
    IF a.pc = "idle" /\ b.pc # "idle"
      THEN [obs EXCEPT !.pre = IF b.route = "verify-otp"
                                 THEN OtpFindOne(b.phone) ELSE NoOtp]
    ELSE IF a.pc = "ver_storeToken" /\ b.pc = "done"
      THEN [obs EXCEPT !.replaced = UserFindById(a.user.id).refreshToken]
    ELSE IF a.pc = "done" /\ b.pc = "idle" THEN Remember(a)
    ELSE obs

Watch == UNCHANGED burst /\ obs' = Observed

\* Requests served one at a time: a request runs to its response before
\* the next one arrives; the clock and the TTL monitor move between requests.
Next ==
    \/ SendOtp("h1") /\ Watch
    \/ SendFindUser("h1") /\ Watch
    \/ SendCreateUser("h1") /\ Watch
    \/ SendUpsert("h1") /\ Watch
    \/ SendInsert("h1") /\ Watch
    \/ SendSms("h1") /\ Watch
    \/ VerifyOtp("h1") /\ Watch
    \/ VerFindOtp("h1") /\ Watch
    \/ VerDeleteExpired("h1") /\ Watch
    \/ VerSave("h1") /\ Watch
    \/ VerDeleteMax("h1") /\ Watch
    \/ VerDelete("h1") /\ Watch
    \/ VerFindUser("h1") /\ Watch
    \/ VerCreateUser("h1") /\ Watch
    \/ VerSaveUser("h1") /\ Watch
    \/ VerStoreToken("h1") /\ Watch
    \/ Refresh("h1") /\ Watch
    \/ RefFindUser("h1") /\ Watch
    \/ RefStore("h1") /\ Watch
    \/ Authenticate("h1") /\ Watch
    \/ AuthFindUser("h1") /\ Watch
    \/ PutUpdate("h1") /\ Watch
    \/ DeleteUser("h1") /\ Watch
    \/ Finish("h1") /\ Watch
    \/ h["h1"].pc = "idle" /\ Tick /\ UNCHANGED <<burst, obs>>
    \/ h["h1"].pc = "idle" /\ TtlMonitor /\ UNCHANGED <<burst, obs>>

Spec == Init /\ [][Next]_vars

\* Requests overlapping in time: every interleaving of the steps of a burst
\* of at most MaxBurst requests, two of them in flight at a time (the clock
\* does not advance during the burst, so no record expires in it, and a
\* burst is too short for MaxAttempts wrong codes).
Arrive == burst < MaxBurst /\ burst' = burst + 1 /\ UNCHANGED obs

ConcNext ==
    \E x \in Handlers :
       \/ Arrive /\ SendOtp(x)
       \/ SendFindUser(x) /\ UNCHANGED <<burst, obs>>
       \/ SendCreateUser(x) /\ UNCHANGED <<burst, obs>>
       \/ SendUpsert(x) /\ UNCHANGED <<burst, obs>>
       \/ SendInsert(x) /\ UNCHANGED <<burst, obs>>
       \/ SendSms(x) /\ UNCHANGED <<burst, obs>>
       \/ Arrive /\ VerifyOtp(x)
       \/ VerFindOtp(x) /\ UNCHANGED <<burst, obs>>
       \/ VerSave(x) /\ UNCHANGED <<burst, obs>>
       \/ VerDelete(x) /\ UNCHANGED <<burst, obs>>
       \/ VerFindUser(x) /\ UNCHANGED <<burst, obs>>
       \/ VerCreateUser(x) /\ UNCHANGED <<burst, obs>>
       \/ VerSaveUser(x) /\ UNCHANGED <<burst, obs>>
       \/ VerStoreToken(x) /\ UNCHANGED <<burst, obs>>
       \/ Arrive /\ Refresh(x)
       \/ RefFindUser(x) /\ UNCHANGED <<burst, obs>>
       \/ RefStore(x) /\ UNCHANGED <<burst, obs>>
       \/ Arrive /\ Authenticate(x)
       \/ AuthFindUser(x) /\ UNCHANGED <<burst, obs>>
       \/ PutUpdate(x) /\ UNCHANGED <<burst, obs>>
       \/ DeleteUser(x) /\ UNCHANGED <<burst, obs>>
       \/ Finish(x) /\ UNCHANGED <<burst, obs>>

ConcSpec == Init /\ [][ConcNext]_vars

\* The two verification endpoints side by side: passcode requests and
\* verifications on either endpoint, served one at a time, with the clock and
\* the TTL monitor moving between requests.
BothNext ==
    \/ SendOtp("h1") /\ UNCHANGED <<burst, obs>>
    \/ SendFindUser("h1") /\ UNCHANGED <<burst, obs>>
    \/ SendCreateUser("h1") /\ UNCHANGED <<burst, obs>>
    \/ SendUpsert("h1") /\ UNCHANGED <<burst, obs>>
    \/ SendInsert("h1") /\ UNCHANGED <<burst, obs>>
    \/ SendSms("h1") /\ UNCHANGED <<burst, obs>>
    \/ VerifyOtp("h1") /\ UNCHANGED <<burst, obs>>
    \/ VerFindOtp("h1") /\ UNCHANGED <<burst, obs>>
    \/ VerDeleteExpired("h1") /\ UNCHANGED <<burst, obs>>
    \/ VerSave("h1") /\ UNCHANGED <<burst, obs>>
    \/ VerDeleteMax("h1") /\ UNCHANGED <<burst, obs>>
    \/ OtpVerify("h1") /\ UNCHANGED <<burst, obs>>
    \/ OtpVerFindOtp("h1") /\ UNCHANGED <<burst, obs>>
    \/ OtpVerSave("h1") /\ UNCHANGED <<burst, obs>>
    \/ VerDelete("h1") /\ UNCHANGED <<burst, obs>>
    \/ VerFindUser("h1") /\ UNCHANGED <<burst, obs>>
    \/ VerSaveUser("h1") /\ UNCHANGED <<burst, obs>>
    \/ VerStoreToken("h1") /\ UNCHANGED <<burst, obs>>
    \/ Finish("h1") /\ UNCHANGED <<burst, obs>>
    \/ h["h1"].pc = "idle" /\ Tick /\ UNCHANGED <<burst, obs>>
    \/ h["h1"].pc = "idle" /\ TtlMonitor /\ UNCHANGED <<burst, obs>>

BothSpec == Init /\ [][BothNext]_vars

\* ================================================================ properties
\* the request in the slot that serves one request at a time
V == h["h1"]

\* V has been answered by POST /api/auth/verify-otp with something other
\* than the validation error
VerifyAnswered ==
    V.pc = "done" /\ V.route = "verify-otp" /\ V.resp.kind # "ValidationError"

\* what signRefreshToken and signAccessToken can mint
MintedRefresh == {signRefreshToken(i, t) : i \in 1..MaxUserIds, t \in 0..MaxTime}
MintedAccess == {signAccessToken(i, t) : i \in 1..MaxUserIds, t \in 0..MaxTime}

Rejections == {"NoToken", "TokenExpired", "Malformed", "WrongTokenKind"}

\* C1: a verification that arrives while the stored record of the phone is
\* unexpired, has attempts below the cap and holds the submitted code
\* succeeds; once a verification has succeeded, every verification before
\* the next passcode request fails with NotFound.
C1_CorrectCodeSucceedsOnce ==
    VerifyAnswered =>
      /\ (/\ obs.pre # NoOtp
          /\ obs.pre.expiresAt >= now
          /\ obs.pre.attempts < MaxAttempts
          /\ V.otp = obs.pre.code) => V.resp.kind = "Success"
      /\ obs.used => V.resp.kind = "NotFound"

C1_Witness ==
    /\ VerifyAnswered
    /\ obs.used
    /\ V.phone = ValidPhone
    /\ V.otp \in Codes
    /\ V.resp.kind = "NotFound"

\* C2: the N-th wrong code in a row, submitted before expiry against a
\* record that a passcode request has just stored, is answered InvalidCode
\* with attemptsRemaining = MaxAttempts - N while N < MaxAttempts, and
\* TooManyAttempts with the record gone when N = MaxAttempts.
C2_WrongCodeCountdown ==
    (VerifyAnswered /\ WrongAttempt(V) /\ obs.run >= 0) =>
      LET N == obs.run + 1 IN
      /\ N <= MaxAttempts
      /\ N < MaxAttempts =>
           /\ V.resp.kind = "InvalidCode"
           /\ V.resp.attemptsRemaining = MaxAttempts - N
      /\ N = MaxAttempts =>
           /\ V.resp.kind = "TooManyAttempts"
           /\ OtpFindOne(V.phone) = NoOtp

C2_Witness ==
    /\ VerifyAnswered
    /\ WrongAttempt(V)
    /\ obs.run = MaxAttempts - 1
    /\ V.resp.kind = "TooManyAttempts"
    /\ OtpFindOne(V.phone) = NoOtp

\* C3: a verification that arrives after the stored record's expiry is
\* answered Expired whatever the code, carries no tokens and leaves the
\* record deleted; while it runs the stored record is not changed (no
\* attempt is counted); the verification that follows is answered NotFound.
C3_ExpiredRecordRejected ==
    /\ (VerifyAnswered /\ obs.pre # NoOtp /\ obs.pre.expiresAt < now) =>
         /\ V.resp.kind = "Expired"
         /\ V.resp.accessToken = NoTok
         /\ V.resp.refreshToken = NoTok
         /\ \A d \in otps : d.id # obs.pre.id
    /\ (/\ V.pc \notin {"idle", "done"}
        /\ V.route = "verify-otp"
        /\ obs.pre # NoOtp
        /\ obs.pre.expiresAt < now) =>
         \A d \in otps : d.id = obs.pre.id => d = obs.pre
    /\ (VerifyAnswered /\ obs.last = "Expired") => V.resp.kind = "NotFound"

C3_Witness ==
    /\ VerifyAnswered
    /\ obs.pre # NoOtp
    /\ obs.pre.expiresAt < now
    /\ V.otp = obs.pre.code
    /\ V.resp.kind = "Expired"

\* the verification arrives right after two passcode requests that followed
\* each other, before the stored record expires, and submits the code the
\* first of them issued
AfterTwoRequests ==
    /\ VerifyAnswered
    /\ obs.prevCode # ""
    /\ V.otp = obs.prevCode
    /\ obs.pre # NoOtp
    /\ obs.pre.expiresAt >= now

\* C4 as stated: after two passcode requests in succession, verifying the
\* code issued by the first fails with InvalidCode.
C4_FirstCodeInvalidated ==
    AfterTwoRequests => V.resp.kind = "InvalidCode"

\* C4 as amended: it fails with InvalidCode when the second request drew a
\* different code, and succeeds when the second request drew the same code.
C4_FirstCodeInvalidatedUnlessRedrawn ==
    AfterTwoRequests =>
      IF obs.prevCode # obs.lastCode
        THEN /\ V.resp.kind = "InvalidCode"
             /\ V.resp.attemptsRemaining = MaxAttempts - 1
        ELSE V.resp.kind = "Success"

C4_Witness ==
    /\ AfterTwoRequests
    /\ obs.prevCode # obs.lastCode
    /\ V.resp.kind = "InvalidCode"

\* C5: the refresh token redeemed by a successful refresh, presented again
\* by the very next request while unexpired, is answered StaleToken.
C5_RotatedTokenStale ==
    (/\ V.pc = "done"
     /\ V.route = "refresh"
     /\ obs.redeemed # NoTok
     /\ V.tok = obs.redeemed
     /\ now < V.tok.exp) => V.resp.kind = "StaleToken"

\* C6: a request carrying a token that signRefreshToken can mint never gets
\* past the gate (it is answered with a rejection before any store call),
\* and a refresh carrying a token that signAccessToken can mint is rejected
\* likewise: no rotation, no tokens.
C6_TokenKindsNotInterchangeable ==
    \A x \in Handlers :
      /\ (h[x].tok \in MintedRefresh /\ h[x].route \in {"auth", "putUser", "deleteUser"})
           => h[x].pc = "done" /\ h[x].resp.kind \in Rejections
      /\ (h[x].tok \in MintedAccess /\ h[x].route = "refresh")
           => /\ h[x].pc = "done"
              /\ h[x].resp.kind \in Rejections
              /\ h[x].resp.refreshToken = NoTok
              /\ h[x].resp.accessToken = NoTok

C6_Witness ==
    /\ V.pc = "done"
    /\ V.route = "auth"
    /\ \E u \in users : u.refreshToken = V.tok /\ V.tok \in MintedRefresh
    /\ now < V.tok.exp
    /\ V.resp.kind \in Rejections

\* the gate has answered a request carrying an access token of the identity
\* that is inactive, a token that was valid when the identity was deactivated
InactiveAnswered ==
    /\ V.pc = "done"
    /\ V.route \in {"auth", "putUser", "deleteUser"}
    /\ V.tok \in MintedAccess
    /\ obs.deactAt >= 0
    /\ UserFindById(V.tok.sub) # NoUser
    /\ ~UserFindById(V.tok.sub).isActive
    /\ V.tok.iat <= obs.deactAt
    /\ obs.deactAt < V.tok.exp

\* C7 as stated: while the flag is false such a request always fails with
\* AccountInactive.
C7_InactiveAlwaysAccountInactive ==
    InactiveAnswered => V.resp.kind = "AccountInactive"

\* C7 as amended: it never reaches the downstream handler; it fails with
\* AccountInactive while the token is unexpired and with TokenExpired once
\* the token has expired.
C7_InactiveNeverAuthenticates ==
    InactiveAnswered =>
      /\ V.route = "auth"
      /\ V.resp.kind = IF now < V.tok.exp THEN "AccountInactive" ELSE "TokenExpired"

C7_Witness ==
    /\ InactiveAnswered
    /\ now < V.tok.exp
    /\ V.resp.kind = "AccountInactive"

\* C8: after a passcode request the gateway accepted, the first wrong code
\* is answered InvalidCode with attemptsRemaining = MaxAttempts - 1; wrong
\* codes leave the stored code and expiry as issued; after k of them,
\* 1 <= k < MaxAttempts, the issued code submitted before expiry is answered
\* with accessToken, refreshToken and user.isVerified = true.
C8_CorrectCodeAfterWrongOnes ==
    /\ (VerifyAnswered /\ obs.sendOk /\ obs.run = 0 /\ WrongAttempt(V)) =>
         /\ V.resp.kind = "InvalidCode"
         /\ V.resp.attemptsRemaining = MaxAttempts - 1
    /\ (V.pc = "idle" /\ obs.sendOk /\ obs.run >= 0 /\ OtpFindOne(ValidPhone) # NoOtp) =>
         /\ OtpFindOne(ValidPhone).code = obs.lastCode
         /\ OtpFindOne(ValidPhone).expiresAt = obs.lastExpiry
    /\ (/\ VerifyAnswered
        /\ obs.sendOk
        /\ obs.run \in 1..(MaxAttempts - 1)
        /\ V.phone = ValidPhone
        /\ V.otp = obs.lastCode
        /\ obs.lastExpiry >= now) =>
         /\ V.resp.kind = "Success"
         /\ V.resp.accessToken \in MintedAccess
         /\ V.resp.refreshToken \in MintedRefresh
         /\ V.resp.user.isVerified

C8_Witness ==
    /\ VerifyAnswered
    /\ obs.sendOk
    /\ obs.run = MaxAttempts - 1
    /\ V.otp = obs.lastCode
    /\ V.resp.kind = "Success"
    /\ V.resp.user.isVerified

\* C9: under overlapping verifications no increment of the attempt counter
\* is lost: once every wrong code compared against a record's code has been
\* saved, the stored counter is at least the number of those comparisons,
\* and that number never exceeds MaxAttempts.
C9_NoLostAttempt ==
    \A d \in otps :
      /\ d.evals <= MaxAttempts
      /\ (\A x \in Handlers : ~(h[x].pc = "ver_save" /\ h[x].rec.id = d.id))
           => d.attempts >= d.evals

\* C10: the store holds at most one record per phone number.
C10_OneRecordPerPhone ==
    \A d, e \in otps : d.phoneNumber = e.phoneNumber => d = e

\* C11: when a verification is answered with success, no record is stored
\* for the phone, exactly one identity is stored for the phone, it is
\* verified, and its stored refresh token is the refreshToken of the response.
C11_SuccessLeavesOneVerifiedIdentity ==
    (VerifyAnswered /\ V.resp.kind = "Success") =>
      /\ \A d \in otps : d.phoneNumber # V.phone
      /\ Cardinality({u \in users : u.phoneNumber = V.phone}) = 1
      /\ UserFindOne(V.phone).isVerified
      /\ UserFindOne(V.phone).refreshToken = V.resp.refreshToken
      /\ V.resp.refreshToken \in MintedRefresh

\* the identity answered with was created after an earlier one was deleted
C11_Witness ==
    /\ VerifyAnswered
    /\ V.resp.kind = "Success"
    /\ V.resp.user.id = 2
    /\ UserFindOne(V.phone).id = 2
    /\ UserFindOne(V.phone).isVerified
    /\ UserFindOne(V.phone).refreshToken = V.resp.refreshToken

\* a passcode request has stored its record (the gateway call is pending or
\* has been answered)
RecordStored ==
    /\ V.route = "send-otp"
    /\ \/ V.pc = "send_sms"
       \/ V.pc = "done" /\ V.resp.kind \in {"OtpSent", "GatewayFailure"}

\* C12: once a passcode request has stored its record, the one record of
\* the phone holds the code the request generated, expiry = request time +
\* OtpTtl and attempts = 0, whatever was stored before; the first wrong code
\* after the request is answered with attemptsRemaining = MaxAttempts - 1.
C12_RequestStoresFreshRecord ==
    /\ RecordStored =>
         /\ Cardinality({d \in otps : d.phoneNumber = V.phone}) = 1
         /\ OtpFindOne(V.phone).code = V.code
         /\ OtpFindOne(V.phone).expiresAt = now + OtpTtl
         /\ OtpFindOne(V.phone).attempts = 0
    /\ (VerifyAnswered /\ obs.run = 0 /\ WrongAttempt(V)) =>
         /\ V.resp.kind = "InvalidCode"
         /\ V.resp.attemptsRemaining = MaxAttempts - 1

\* the request replaced an unexpired record of another code against which
\* wrong codes had been submitted
C12_Witness ==
    /\ RecordStored
    /\ V.pc = "done"
    /\ obs.run >= 2
    /\ obs.lastExpiry >= now
    /\ obs.lastCode # V.code
    /\ OtpFindOne(V.phone).code = V.code
    /\ OtpFindOne(V.phone).attempts = 0

\* a passcode request has been answered after its one gateway call failed
GatewayFailed ==
    /\ V.pc = "done"
    /\ V.route = "send-otp"
    /\ V.sms = <<FALSE>>

InputRejected ==
    /\ V.pc = "done"
    /\ \/ V.route = "send-otp" /\ V.resp.kind \in {"ValidationError", "FormatError"}
       \/ V.route = "verify-otp" /\ V.resp.kind = "ValidationError"

\* C14: a passcode request whose phone is missing or does not begin with
\* '+', and a verification whose phone or code is missing, are answered with
\* the client error without a gateway call, and the step that answers them
\* leaves the stored records and identities as they were.
C14_InvalidInputChangesNothing ==
    /\ [](/\ (V.route = "send-otp" /\ (Len(V.phone) = 0 \/ V.phone[1] # "+"))
               => InputRejected /\ V.sms = <<>>
          /\ (V.route = "verify-otp" /\ (Len(V.phone) = 0 \/ V.otp = ""))
               => InputRejected)
    /\ [][(V.pc = "idle" /\ InputRejected') => UNCHANGED <<otps, users, uids>>]_vars

\* a phone without '+' was rejected while a record and an identity are stored
C14_Witness ==
    /\ InputRejected
    /\ V.route = "send-otp"
    /\ Len(V.phone) > 0
    /\ V.resp.kind = "FormatError"
    /\ otps # {}
    /\ users # {}

\* the first failure in the stated order for a refresh of token tok at time
\* t when u is the identity stored for its subject
RefreshOrder(tok, u, t) ==
    IF tok.key # "dev_refresh" THEN "Malformed"
    ELSE IF t >= tok.exp THEN "TokenExpired"
    ELSE IF tok.type # "refresh" THEN "WrongTokenKind"
    ELSE IF u = NoUser THEN "UnknownUser"
    ELSE IF u.refreshToken # tok THEN "StaleToken"
    ELSE IF ~u.isActive THEN "AccountInactive"
    ELSE "none"

\* C15: a refresh that fails is answered with the first failure in the
\* order signature/expiry, kind, subject lookup, stored-token equality,
\* active flag (so a rotated-out token of an inactive identity gives
\* StaleToken and its stored token gives AccountInactive), and a refresh
\* request changes the stored identities only in the step that answers it
\* with success.
C15_RefreshFailsInOrder ==
    /\ []((/\ V.pc = "done"
           /\ V.route = "refresh"
           /\ V.tok # NoTok
           /\ V.resp.kind # "Success")
            => V.resp.kind = RefreshOrder(V.tok, UserFindById(V.tok.sub), now))
    /\ [][(V'.route = "refresh" /\ users' # users)
            => V'.pc = "done" /\ V'.resp.kind = "Success"]_vars

\* a rotated-out, unexpired token of an inactive identity was answered
C15_Witness ==
    /\ V.pc = "done"
    /\ V.route = "refresh"
    /\ V.tok \in MintedRefresh
    /\ now < V.tok.exp
    /\ UserFindById(V.tok.sub) # NoUser
    /\ ~UserFindById(V.tok.sub).isActive
    /\ UserFindById(V.tok.sub).refreshToken.iat > V.tok.iat
    /\ V.resp.kind = "StaleToken"

\* the first failure in the stated order for the gate given token tok at
\* time t when u is the identity stored for its subject
AuthOrder(tok, u, t) ==
    IF tok = NoTok THEN "NoToken"
    ELSE IF tok.key # "dev_secret" THEN "Malformed"
    ELSE IF t >= tok.exp THEN "TokenExpired"
    ELSE IF tok.type = "refresh" THEN "WrongTokenKind"
    ELSE IF u = NoUser THEN "UnknownUser"
    ELSE IF ~u.isActive THEN "AccountInactive"
    ELSE "none"

\* C16: a request the gate rejects is answered with the first failure in
\* the order NoToken, Expired or Malformed, WrongTokenKind, UnknownUser,
\* AccountInactive; a downstream handler runs only when none of them
\* applies, with the identity of the token's subject attached; and the gate
\* itself changes no stored identity.
C16_GateFailsInOrder ==
    /\ []((V.pc = "done" /\ V.route = "auth" /\ V.resp.kind # "SessionValid")
            => V.resp.kind = AuthOrder(V.tok, UserFindById(V.tok.sub), now))
    /\ []((V.pc = "done" /\ V.resp.kind = "SessionValid")
            => /\ AuthOrder(V.tok, UserFindById(V.tok.sub), now) = "none"
               /\ V.resp.user.id = V.tok.sub
               /\ V.resp.user.phoneNumber = UserFindById(V.tok.sub).phoneNumber)
    /\ [](V.pc \in {"put_update", "del_user"}
            => /\ AuthOrder(V.tok, UserFindById(V.tok.sub), now) = "none"
               /\ V.user = UserFindById(V.tok.sub))
    /\ [][V.route = "auth" => users' = users]_vars

\* an unexpired access token of a deleted identity was answered
C16_Witness ==
    /\ V.pc = "done"
    /\ V.route = "auth"
    /\ V.tok \in MintedAccess
    /\ now < V.tok.exp
    /\ UserFindById(V.tok.sub) = NoUser
    /\ V.resp.kind = "UnknownUser"

\* C17 as stated: an unexpired refresh token signed by the system and
\* presented at the gate is answered WrongTokenKind, and an unexpired access
\* token signed by the system and submitted to refresh is answered
\* WrongTokenKind.
C17_WrongKindReported ==
    /\ (/\ V.pc = "done"
        /\ V.route = "auth"
        /\ V.tok \in MintedRefresh
        /\ now < V.tok.exp) => V.resp.kind = "WrongTokenKind"
    /\ (/\ V.pc = "done"
        /\ V.route = "refresh"
        /\ V.tok \in MintedAccess
        /\ now < V.tok.exp) => V.resp.kind = "WrongTokenKind"

\* C17 as amended: both are answered Malformed, because the signature check
\* against the other kind's secret fails before the kind is looked at.
C17_OtherKindReportedMalformed ==
    /\ (/\ V.pc = "done"
        /\ V.route = "auth"
        /\ V.tok \in MintedRefresh
        /\ now < V.tok.exp) => V.resp.kind = "Malformed"
    /\ (/\ V.pc = "done"
        /\ V.route = "refresh"
        /\ V.tok \in MintedAccess
        /\ now < V.tok.exp) => V.resp.kind = "Malformed"

\* the refresh token stored for an identity was presented at the gate
C17_Witness ==
    /\ V.pc = "done"
    /\ V.route = "auth"
    /\ V.tok \in MintedRefresh
    /\ now < V.tok.exp
    /\ UserFindById(V.tok.sub).refreshToken = V.tok
    /\ V.resp.kind = "Malformed"

\* C18: after a successful verification has replaced the refresh token
\* stored for an identity, the replaced token, submitted to refresh by the
\* next request while unexpired, is answered StaleToken.
C18_EarlierTokenStaleAfterLogin ==
    (/\ V.pc = "done"
     /\ V.route = "refresh"
     /\ obs.last = "Success"
     /\ obs.replaced # NoTok
     /\ V.tok = obs.replaced
     /\ now < V.tok.exp) => V.resp.kind = "StaleToken"

\* C19: the user projection of no response carries a refresh token, and a
\* response carries a refresh token at top level only when it is the success
\* response of a verification or of a refresh.
C19_NoStoredTokenInProjection ==
    \A x \in Handlers :
      /\ h[x].resp.user.refreshToken = NoTok
      /\ h[x].resp.refreshToken # NoTok =>
           /\ h[x].pc = "done"
           /\ h[x].route \in {"verify-otp", "refresh"}
           /\ h[x].resp.kind = "Success"

\* the session check answered with the projection of an identity that has
\* a stored refresh token
C19_Witness ==
    /\ V.pc = "done"
    /\ V.resp.kind = "SessionValid"
    /\ UserFindById(V.resp.user.id).refreshToken \in MintedRefresh
    /\ V.resp.user.refreshToken = NoTok

\* the identity a passcode request creates for phone p
NewIdentity(p, i) ==
    [id |-> i, phoneNumber |-> p, isVerified |-> FALSE, isActive |-> TRUE,
     refreshToken |-> NoTok]

\* a step of a passcode request: the lookup sends the request to the create
\* exactly when no identity is stored for the phone; the create adds one
\* identity with the defaults when none is stored and nothing otherwise; no
\* other step of the request touches the identities
SendOtpStep(x) ==
    /\ (h[x].pc = "send_findUser") =>
         (h'[x].pc = "send_createUser" <=> UserFindOne(h[x].phone) = NoUser)
    /\ IF h[x].pc = "send_createUser" /\ UserFindOne(h[x].phone) = NoUser
         THEN /\ \E i \in 1..MaxUserIds : users' = users \cup {NewIdentity(h[x].phone, i)}
              /\ Cardinality(users') = Cardinality(users) + 1
         ELSE users' = users

\* C20: a passcode request for an unseen phone creates one identity with
\* verified = false, active = true and no stored refresh token, and for a
\* seen phone leaves the identities unchanged; in every state, overlapping
\* requests included, at most one identity is stored per phone number.
C20_OneIdentityPerPhone ==
    /\ [](\A u, v \in users : u.phoneNumber = v.phoneNumber => u = v)
    /\ [][\A x \in Handlers :
            (h[x].route = "send-otp" /\ h'[x] # h[x]) => SendOtpStep(x)]_vars

\* two overlapping requests for an unseen phone both went on to create the
\* identity; the second create was rejected
C20_Witness ==
    \E x \in Handlers :
      /\ h[x].pc = "done"
      /\ h[x].route = "send-otp"
      /\ h[x].resp.kind = "Unhandled"
      /\ Cardinality({u \in users : u.phoneNumber = h[x].phone}) = 1

\* C21: whenever no request is being served, every stored record has
\* attempts below MaxAttempts, whichever of the two verification endpoints
\* handled the wrong codes.
C21_StoredAttemptsBelowMax ==
    V.pc \in {"idle", "done"} => \A d \in otps : d.attempts < MaxAttempts

\* C22: every passcode request ends with a response to its caller, success
\* or failure; none ends with an error thrown out of the handler.
C22_EveryRequestAnswered ==
    \A x \in Handlers :
      (h[x].pc = "done" /\ h[x].route = "send-otp") =>
        h[x].resp.kind \in {"ValidationError", "FormatError", "OtpSent", "GatewayFailure"}

\* the refresh in slot x has passed every check: it rotates, or has rotated
\* and answered with a new pair
Redeeming(x) ==
    /\ h[x].route = "refresh"
    /\ \/ h[x].pc = "ref_store"
       \/ h[x].pc = "done" /\ h[x].resp.kind = "Success"

\* C23: of the overlapping refresh requests that submit the same refresh
\* token, at most one passes the checks and returns a new pair.
C23_OneRedemptionPerToken ==
    \A x, y \in Handlers :
      (x # y /\ Redeeming(x) /\ Redeeming(y)) => h[x].tok # h[y].tok

\* C24: in a burst of one passcode request and two verifications for the
\* phone, at most one verification is answered with success.
C24_OneSuccessPerCode ==
    \A x, y \in Handlers :
      (/\ x # y
       /\ burst <= 3
       /\ h[x].pc = "done" /\ h[x].route = "verify-otp"
       /\ h[y].pc = "done" /\ h[y].route = "verify-otp"
       /\ h[x].phone = h[y].phone)
        => ~(h[x].resp.kind = "Success" /\ h[y].resp.kind = "Success")

\* C25: a verification that read a record before a passcode request
\* replaced its code does not afterwards delete the new record: the step of
\* a verification that deletes the record it matched removes a record that
\* still holds the code the verification submitted.
C25_InFlightVerifyLeavesNewRecord ==
    [][\A x \in Handlers :
         (/\ h[x].route = "verify-otp"
          /\ h[x].pc = "ver_delete"
          /\ h'[x] # h[x])
           => \A d \in otps \ otps' : d.code = h[x].otp]_vars
\* the steps of POST /api/auth/verify-otp up to the comparison of the code,
\* and the steps after a match
BeforeMatch == {"ver_findOtp", "ver_delExpired", "ver_save", "ver_delMax"}
AfterMatch == {"ver_delete", "ver_findUser", "ver_createUser", "ver_saveUser",
               "ver_storeToken"}
VerifyFailures == {"ValidationError", "NotFound", "Expired", "InvalidCode",
                   "TooManyAttempts"}

\* C26: a verification that fails runs only steps that leave every identity
\* as it was (it starts, passes through steps before the match only, and none
\* of them writes the identity store) and its response carries no token; the
\* verified flag of an identity turns true only in the save of a
\* verification after the match, which goes on to answer success; outside
\* the user management requests no step turns a verified flag false or
\* removes an identity.
C26_FailedVerifyLeavesIdentities ==
    [][/\ (V'.route = "verify-otp" /\ V'.pc \in BeforeMatch)
            => (V.pc \in BeforeMatch \cup {"idle"} /\ users' = users)
       /\ (V'.route = "verify-otp" /\ V'.pc = "done" /\ V.pc # "done"
             /\ V'.resp.kind \in VerifyFailures)
            => /\ V.pc \in BeforeMatch \cup {"idle"}
               /\ users' = users
               /\ V'.resp.accessToken = NoTok
               /\ V'.resp.refreshToken = NoTok
       /\ (V.route = "verify-otp" /\ V.pc \in AfterMatch /\ V' # V)
            => (V'.pc \in AfterMatch \/ (V'.pc = "done" /\ V'.resp.kind = "Success"))
       /\ \A u \in users :
            \/ V.pc \in {"put_update", "del_user"}
            \/ \E w \in users' :
                 /\ w.id = u.id
                 /\ u.isVerified => w.isVerified
                 /\ (~u.isVerified /\ w.isVerified)
                      => (V.route = "verify-otp" /\ V.pc = "ver_saveUser"
                          /\ w.phoneNumber = V.phone)]_vars

\* a wrong code has been answered InvalidCode while the identity that the
\* passcode request created for the phone is still unverified
C26_Witness ==
    /\ VerifyAnswered
    /\ V.resp.kind = "InvalidCode"
    /\ UserFindOne(V.phone) # NoUser
    /\ ~UserFindOne(V.phone).isVerified
\* C27: the refresh token that a verification or a refresh is about to
\* store differs from the refresh token stored for the identity so far (a
\* token issued earlier for that identity).
C27_StoredTokenIsNew ==
    (/\ V.pc \in {"ver_storeToken", "ref_store"}
     /\ UserFindById(V.user.id) # NoUser
     /\ UserFindById(V.user.id).refreshToken # NoTok)
      => V.newTok # UserFindById(V.user.id).refreshToken
\* C28: a stored record counts as expired only when its expiry lies strictly
\* before the current time: a verification with the stored code that arrives
\* at or before the expiry (the instant of expiry included) succeeds, one
\* that arrives after it is answered Expired, and the record a passcode
\* request stores expires at request time + OtpTtl.
C28_ExpiryIsStrict ==
    /\ (/\ VerifyAnswered
        /\ obs.pre # NoOtp
        /\ now <= obs.pre.expiresAt
        /\ obs.pre.attempts < MaxAttempts
        /\ V.otp = obs.pre.code) => V.resp.kind = "Success"
    /\ (VerifyAnswered /\ obs.pre # NoOtp /\ now > obs.pre.expiresAt)
         => V.resp.kind = "Expired"
    /\ RecordStored => \A d \in otps : d.phoneNumber = V.phone
                                         => d.expiresAt = now + OtpTtl

\* the stored code has been accepted at the very instant of expiry
C28_Witness ==
    /\ VerifyAnswered
    /\ obs.pre # NoOtp
    /\ obs.pre.expiresAt = now
    /\ OtpTtl > 0
    /\ V.otp = obs.pre.code
    /\ V.resp.kind = "Success"
\* C29: the gate writes neither store (the step that starts it and the step
\* that reads the identity leave users and otps as they are), and an
\* unexpired access token of an existing active identity passes the gate
\* whatever refresh token is stored for the identity.
C29_GateReadsOnly ==
    /\ [](( /\ V.pc = "done"
            /\ V.route = "auth"
            /\ V.tok \in MintedAccess
            /\ now < V.tok.exp
            /\ UserFindById(V.tok.sub) # NoUser
            /\ UserFindById(V.tok.sub).isActive) => V.resp.kind = "SessionValid")
    /\ [][(\/ V.pc = "auth_findUser"
           \/ V.pc = "idle" /\ V'.route = "auth")
            => (users' = users /\ otps' = otps)]_vars

\* an access token issued before the refresh token now stored for its
\* identity was issued has passed the gate
C29_Witness ==
    /\ V.pc = "done"
    /\ V.route = "auth"
    /\ V.tok \in MintedAccess
    /\ V.resp.kind = "SessionValid"
    /\ UserFindById(V.tok.sub).refreshToken # NoTok
    /\ UserFindById(V.tok.sub).refreshToken.iat > V.tok.iat
\* a verification with the stored code, before its expiry, has been answered
\* for a phone whose identity is inactive
InactiveVerified ==
    /\ VerifyAnswered
    /\ obs.pre # NoOtp
    /\ now <= obs.pre.expiresAt
    /\ obs.pre.attempts < MaxAttempts
    /\ V.otp = obs.pre.code
    /\ UserFindOne(V.phone) # NoUser
    /\ ~UserFindOne(V.phone).isActive

\* the gate has answered an access token, or refresh has answered a refresh
\* token, of the identity that is inactive, a token issued after the
\* deactivation
InactivePairAnswered ==
    /\ V.pc = "done"
    /\ \/ V.route = "auth" /\ V.tok \in MintedAccess
       \/ V.route = "refresh" /\ V.tok \in MintedRefresh
    /\ obs.deactAt >= 0
    /\ V.tok.iat >= obs.deactAt
    /\ UserFindById(V.tok.sub) # NoUser
    /\ ~UserFindById(V.tok.sub).isActive

\* C30 as stated: the verification succeeds with a pair and stores its
\* refresh token, and either token of a pair issued while the flag is false
\* is answered AccountInactive.
C30_InactivePairAlwaysAccountInactive ==
    /\ InactiveVerified =>
         /\ V.resp.kind = "Success"
         /\ V.resp.accessToken = signAccessToken(UserFindOne(V.phone).id, now)
         /\ V.resp.refreshToken = signRefreshToken(UserFindOne(V.phone).id, now)
         /\ UserFindOne(V.phone).refreshToken = V.resp.refreshToken
    /\ InactivePairAnswered => V.resp.kind = "AccountInactive"

\* C30 as amended: the verification succeeds with a pair and stores its
\* refresh token; the access token is answered AccountInactive by the gate
\* until it expires and TokenExpired afterwards; the refresh token is
\* answered by refresh with TokenExpired once expired, else StaleToken once
\* another token has been stored for the identity, else AccountInactive.
C30_InactivePairNeverAccepted ==
    /\ InactiveVerified =>
         /\ V.resp.kind = "Success"
         /\ V.resp.accessToken = signAccessToken(UserFindOne(V.phone).id, now)
         /\ V.resp.refreshToken = signRefreshToken(UserFindOne(V.phone).id, now)
         /\ UserFindOne(V.phone).refreshToken = V.resp.refreshToken
    /\ InactivePairAnswered =>
         V.resp.kind = IF now >= V.tok.exp THEN "TokenExpired"
                       ELSE IF V.route = "refresh"
                               /\ UserFindById(V.tok.sub).refreshToken # V.tok
                         THEN "StaleToken"
                       ELSE "AccountInactive"

\* the refresh token stored by a verification after the deactivation has
\* been answered AccountInactive by refresh
C30_Witness ==
    /\ InactivePairAnswered
    /\ V.route = "refresh"
    /\ V.tok.iat > obs.deactAt
    /\ UserFindById(V.tok.sub).refreshToken = V.tok
    /\ V.resp.kind = "AccountInactive"
====
